---- MODULE Spec2Model ----
(***************************************************************************)
(* A model of FaultTolerantRedisClone (src/fault_tolerant_redis.py): the   *)
(* primary keyspace (data_store), the expiry index (expiry_times), the     *)
(* background sweeper, and the two locks (lock, lock_list) under which the *)
(* operations run.                                                         *)
(*                                                                         *)
(* Time: time.time() is a float; the model counts the clock in ticks of    *)
(* 1/TicksPerSec second so that instants strictly between two whole        *)
(* seconds exist.  A deadline time.time() + int(ex) is now + ex*TicksPerSec*)
(***************************************************************************)
EXTENDS Integers, Sequences, FiniteSets, TLC

\* ---------------------------------------------------------------- bounds
TicksPerSec == 2
MaxTime == 2
MaxLen == 1
MaxStr == 2
MaxZ == 2
MaxList == 5
NumThreads == 2

\* ---------------------------------------------------------------- inputs
Keys == {"k1"}
SweepKeys == {"k1", "k2"}
Strs == {"a", "b"}
Fields == {"f"}
Scores == {1, 2}
Members == {"a", "b"}
Secs == {1, 100}
NoEx == -1
Threads == 1..NumThreads
PushArgs == {<<"a">>, <<"b">>, <<"a", "b">>}
BatchArgs == {<<"a", "b", "c">>, <<"d", "e">>}
RangeArgs == {0, 1}

\* ---------------------------------------------------------------- values
\* Python values, tagged by their type.  t: "none" (None), "str", "list",
\* "hash" (dict), "int", "bool", "err" (a raised exception, s names it).
EmptyMap == [x \in {} |-> ""]
None == [t |-> "none", s |-> "", l |-> <<>>, h |-> EmptyMap, n |-> 0]
Str(x) == [None EXCEPT !.t = "str", !.s = x]
List(x) == [None EXCEPT !.t = "list", !.l = x]
Hash(x) == [None EXCEPT !.t = "hash", !.h = x]
IntV(x) == [None EXCEPT !.t = "int", !.n = x]
BoolV(x) == [None EXCEPT !.t = "bool", !.n = IF x THEN 1 ELSE 0]
Err(x) == [None EXCEPT !.t = "err", !.s = x]
OK == Str("OK")

\* dict[k] = v and dict.pop(k, None)
Put(f, k, v) == [x \in (DOMAIN f) \cup {k} |-> IF x = k THEN v ELSE f[x]]
Pop(f, k) == [x \in (DOMAIN f) \ {k} |-> f[x]]
\* dict.get(k, default)
GetOr(f, k, default) == IF k \in DOMAIN f THEN f[k] ELSE default

\* int(x / y) for a difference counted in ticks: truncation toward zero
TruncDiv(x, y) == IF x >= 0 THEN x \div y ELSE 0 - ((0 - x) \div y)

\* list[a:b] for a, b >= 0
Slice(l, a, b) == SubSeq(l, a + 1, IF b < Len(l) THEN b ELSE Len(l))


\* The engine: data_store, expiry_times, sorted_sets; the snapshot file
\* (disk); the wall clock (now).
\* Request threads, for the specifications that run calls step by step:
\* pc (where the thread is in its call), call (operation and arguments),
\* lst (the thread's local: `lst` of a list operation, `value` of delete),
\* iter (values the loop of lpush has still to insert), ret (what the call
\* returned or raised), lock (owner of self.lock, 0 if free), lock_list
\* (owner of self.lock_list), heap (the list objects, by identity; a list
\* value in data_store then has n = its index in heap), prior (the threads
\* whose call had returned when this thread's call began).
\* held: the mapping a caller got from hgetall and still holds.
\* ser: per thread, the locals of a running _save_snapshot (json.dump's
\* iteration over data_store).  views: while a save runs, the keyspaces the
\* engine has had since the save took the lock.
VARIABLES data_store, expiry_times, sorted_sets, disk, now, last,
          pc, call, lst, iter, ret, lock, lock_list, heap, prior,
          held, ser, views

engine == <<data_store, expiry_times, sorted_sets, disk>>
threadvars == <<pc, call, lst, iter, ret, lock, lock_list, heap, prior>>
aux == <<held, ser, views>>
vars == <<data_store, expiry_times, sorted_sets, disk, now, last,
          pc, call, lst, iter, ret, lock, lock_list, heap, prior,
          held, ser, views>>

\* the engine object: the fields the operations read and write
Self == [data_store |-> data_store, expiry_times |-> expiry_times,
         sorted_sets |-> sorted_sets, disk |-> disk]
Out(self, r) == [self |-> self, ret |-> r]

\* ------------------------------------------------ operations, whole calls
\* Each operator is one call running alone: the engine before, the clock
\* reading t, the arguments; the engine after and the value returned.

\* set as it would be without the else branch that drops the old deadline
set_keeps_ttl(self, t, key, value, ex) ==
    LET s1 == [self EXCEPT !.data_store = Put(@, key, value)]
    IN  IF ex # NoEx
        THEN Out([s1 EXCEPT !.expiry_times = Put(@, key, t + ex * TicksPerSec)], OK)
        ELSE Out(s1, OK)

set(self, t, key, value, ex) ==
    LET s1 == [self EXCEPT !.data_store = Put(@, key, value)]
    IN  IF ex # NoEx
        THEN Out([s1 EXCEPT !.expiry_times = Put(@, key, t + ex * TicksPerSec)], OK)
        ELSE Out([s1 EXCEPT !.expiry_times = Pop(@, key)], OK)

\* get as it would be with > for >= in the deadline test
get_strict(self, t, key) ==
    IF key \in DOMAIN self.expiry_times /\ t > self.expiry_times[key]
    THEN Out([self EXCEPT !.data_store = Pop(@, key),
                          !.expiry_times = Pop(@, key)], None)
    ELSE Out(self, GetOr(self.data_store, key, None))

get(self, t, key) ==
    IF key \in DOMAIN self.expiry_times /\ t >= self.expiry_times[key]
    THEN Out([self EXCEPT !.data_store = Pop(@, key),
                          !.expiry_times = Pop(@, key)], None)
    ELSE Out(self, GetOr(self.data_store, key, None))

\* delete as it would be reading the value with .get instead of .pop
delete_reads(self, t, key) ==
    Out([self EXCEPT !.expiry_times = Pop(@, key)],
        GetOr(self.data_store, key, None))

delete(self, t, key) ==
    Out([self EXCEPT !.data_store = Pop(@, key), !.expiry_times = Pop(@, key)],
        GetOr(self.data_store, key, None))

exists(self, t, key) ==
    IF key \in DOMAIN self.data_store
    THEN IF key \in DOMAIN self.expiry_times /\ self.expiry_times[key] <= t
         THEN Out([self EXCEPT !.data_store = Pop(@, key),
                               !.expiry_times = Pop(@, key)], BoolV(FALSE))
         ELSE Out(self, BoolV(TRUE))
    ELSE Out(self, BoolV(FALSE))

\* expire as it would be without the test that the key exists
expire_unchecked(self, t, key, seconds) ==
    Out([self EXCEPT !.expiry_times = Put(@, key, t + seconds * TicksPerSec)],
        BoolV(TRUE))

expire(self, t, key, seconds) ==
    IF key \in DOMAIN self.data_store
    THEN Out([self EXCEPT !.expiry_times = Put(@, key, t + seconds * TicksPerSec)],
             BoolV(TRUE))
    ELSE Out(self, BoolV(FALSE))

ttl(self, t, key) ==
    IF key \notin DOMAIN self.data_store THEN Out(self, IntV(-2))
    ELSE IF key \notin DOMAIN self.expiry_times THEN Out(self, IntV(-1))
    ELSE LET remaining == TruncDiv(self.expiry_times[key] - t, TicksPerSec)
         IN  IF remaining <= 0
             THEN Out([self EXCEPT !.data_store = Pop(@, key),
                                   !.expiry_times = Pop(@, key)], IntV(-2))
             ELSE Out(self, IntV(remaining))

persist(self, t, key) ==
    IF key \notin DOMAIN self.data_store THEN Out(self, BoolV(FALSE))
    ELSE IF key \notin DOMAIN self.expiry_times THEN Out(self, BoolV(FALSE))
    ELSE Out([self EXCEPT !.expiry_times = Pop(@, key)], BoolV(TRUE))

\* json.dump of the three dictionaries into the snapshot file
\* json.dump of one sorted set: a (score, member) tuple is written as a JSON
\* array, which is a list when it is read back
JsonPairs(zset) == [i \in 1..Len(zset) |-> [zset[i] EXCEPT !.tup = FALSE]]

\* The file json.dump writes for {'data': .., 'expiry': .., 'sorted_sets': ..}.
\* A str, a list of strs and a dict of strs are written as they are; a
\* deadline is written as a JSON number; valid: the text is a whole document.
Document(data, expiry, zsets) ==
    [exists |-> TRUE, valid |-> TRUE, data |-> data,
     expiry |-> [k \in DOMAIN expiry |-> IntV(expiry[k])],
     sorted_sets |-> [k \in DOMAIN zsets |-> JsonPairs(zsets[k])]]

\* _save_snapshot when every write succeeds and nothing runs meanwhile
_save_snapshot(self) ==
    [self EXCEPT !.disk = Document(self.data_store, self.expiry_times,
                                   self.sorted_sets)]

flushall(self, t) ==
    Out(_save_snapshot([self EXCEPT !.data_store = EmptyMap,
                                    !.expiry_times = EmptyMap]), OK)

\* append as it would be if an absent key were created holding the text
append_creates(self, t, key, value) ==
    IF key \in DOMAIN self.data_store
    THEN IF self.data_store[key].t = "str"
         THEN LET new == self.data_store[key].s \o value
              IN  Out([self EXCEPT !.data_store = Put(@, key, Str(new))], IntV(Len(new)))
         ELSE Out(self, Str("Value for key " \o key \o " is not a string"))
    ELSE Out([self EXCEPT !.data_store = Put(@, key, Str(value))], IntV(Len(value)))

\* append, l.166-185: += on a str value and its new length; a message
\* otherwise.  The text is a str.
append(self, t, key, value) ==
    IF key \in DOMAIN self.data_store
    THEN IF self.data_store[key].t = "str"
         THEN LET new == self.data_store[key].s \o value
              IN  Out([self EXCEPT !.data_store = Put(@, key, Str(new))], IntV(Len(new)))
         ELSE Out(self, Str("Value for key " \o key \o " is not a string"))
    ELSE Out(self, Str("Key " \o key \o " does not exist"))

\* Hash.  An item assignment on a str or a list value raises TypeError; a
\* .get on one raises AttributeError; "field in value" on a str or a list
\* is false for the field names used here (no field is a value or part of one).
hset(self, t, hash_key, field, value) ==
    LET s1 == IF hash_key \notin DOMAIN self.data_store
              THEN [self EXCEPT !.data_store = Put(@, hash_key, Hash(EmptyMap))]
              ELSE self
        cur == s1.data_store[hash_key]
    IN  IF cur.t = "hash"
        THEN Out([s1 EXCEPT !.data_store = Put(@, hash_key, Hash(Put(cur.h, field, value)))], OK)
        ELSE Out(s1, Err("TypeError"))

hget(self, t, hash_key, field) ==
    LET hash_data == GetOr(self.data_store, hash_key, Hash(EmptyMap))
    IN  IF hash_data.t = "hash"
        THEN Out(self, IF field \in DOMAIN hash_data.h THEN Str(hash_data.h[field]) ELSE None)
        ELSE Out(self, Err("AttributeError"))

hdel(self, t, hash_key, field) ==
    LET hash_data == GetOr(self.data_store, hash_key, Hash(EmptyMap))
    IN  IF hash_data.t = "hash" /\ field \in DOMAIN hash_data.h
        THEN Out([self EXCEPT !.data_store = Put(@, hash_key, Hash(Pop(hash_data.h, field)))],
                 BoolV(TRUE))
        ELSE Out(self, BoolV(FALSE))

hgetall(self, t, hash_key) ==
    Out(self, GetOr(self.data_store, hash_key, Hash(EmptyMap)))

hdelall(self, t, hash_key) ==
    IF hash_key \in DOMAIN self.data_store
    THEN Out([self EXCEPT !.data_store = Pop(@, hash_key)], BoolV(TRUE))
    ELSE Out(self, BoolV(FALSE))

\* List.  _get_list creates an empty list for an absent key and raises
\* TypeError for a value that is not a list.
_get_list(self, key) ==
    IF key \notin DOMAIN self.data_store
    THEN Out([self EXCEPT !.data_store = Put(@, key, List(<<>>))], List(<<>>))
    ELSE IF self.data_store[key].t # "list"
         THEN Out(self, Err("TypeError"))
         ELSE Out(self, self.data_store[key])

\* for value in reversed(values): lst.insert(0, value)
RECURSIVE InsertReversed(_, _)
InsertReversed(l, values) ==
    IF values = <<>> THEN l
    ELSE InsertReversed(<<values[Len(values)]>> \o l, SubSeq(values, 1, Len(values) - 1))

\* lpush as it would be if it inserted the values at the head one by one
\* in argument order
lpush_each(self, t, key, values) ==
    LET g == _get_list(self, key)
    IN  IF g.ret.t = "err" THEN g
        ELSE LET l2 == [i \in 1..Len(values) |-> values[Len(values) + 1 - i]] \o g.ret.l
             IN  Out([g.self EXCEPT !.data_store = Put(@, key, List(l2))], IntV(Len(l2)))

lpush(self, t, key, values) ==
    LET g == _get_list(self, key)
    IN  IF g.ret.t = "err" THEN g
        ELSE LET l2 == InsertReversed(g.ret.l, values)
             IN  Out([g.self EXCEPT !.data_store = Put(@, key, List(l2))], IntV(Len(l2)))

rpush(self, t, key, values) ==
    LET g == _get_list(self, key)
    IN  IF g.ret.t = "err" THEN g
        ELSE LET l2 == g.ret.l \o values
             IN  Out([g.self EXCEPT !.data_store = Put(@, key, List(l2))], IntV(Len(l2)))

lpop(self, t, key) ==
    LET g == _get_list(self, key)
    IN  IF g.ret.t = "err" THEN g
        ELSE IF g.ret.l = <<>> THEN Out(g.self, None)
        ELSE Out([g.self EXCEPT !.data_store = Put(@, key, List(Tail(g.ret.l)))],
                 Str(Head(g.ret.l)))

rpop(self, t, key) ==
    LET g == _get_list(self, key)
    IN  IF g.ret.t = "err" THEN g
        ELSE IF g.ret.l = <<>> THEN Out(g.self, None)
        ELSE Out([g.self EXCEPT !.data_store =
                        Put(@, key, List(SubSeq(g.ret.l, 1, Len(g.ret.l) - 1)))],
                 Str(g.ret.l[Len(g.ret.l)]))

lrange(self, t, key, start, stop) ==
    LET g == _get_list(self, key)
    IN  IF g.ret.t = "err" THEN g
        ELSE Out(g.self, List(Slice(g.ret.l, start, stop + 1)))

llen(self, t, key) ==
    LET g == _get_list(self, key)
    IN  IF g.ret.t = "err" THEN g
        ELSE Out(g.self, IntV(Len(g.ret.l)))

delpush(self, t, key) ==
    Out([self EXCEPT !.data_store = Pop(@, key)], Str("Success"))

\* the sweeper's pass as it would be without the pop from data_store
_cleanup_expiry_only(self, t) ==
    LET expired_keys == {key \in DOMAIN self.expiry_times : self.expiry_times[key] <= t}
    IN  [self EXCEPT
            !.expiry_times = [x \in (DOMAIN @) \ expired_keys |-> @[x]]]

\* Sorted sets.  An entry is a pair of a score and a member: the tuple
\* (score, value) that zset appends (tup), or the list [score, value] that
\* json.load makes of it.
Pair(score, value) == [sc |-> score, m |-> value, tup |-> TRUE]

\* the order of strs
Ord(x) == CHOOSE i \in 1..5 : <<"a", "b", "c", "d", "e">>[i] = x

\* x < y for two tuples or two lists: by score, then by member (for a
\* tuple and a list, < raises TypeError)
PairLess(x, y) == x.sc < y.sc \/ (x.sc = y.sc /\ Ord(x.m) < Ord(y.m))
\* list.sort(): a stable sort by <
InsertPair(l, x) ==
    LET n == Cardinality({i \in 1..Len(l) : ~PairLess(x, l[i])})
    IN  SubSeq(l, 1, n) \o <<x>> \o SubSeq(l, n + 1, Len(l))
RECURSIVE SortPairs(_)
SortPairs(l) ==
    IF l = <<>> THEN <<>>
    ELSE InsertPair(SortPairs(SubSeq(l, 1, Len(l) - 1)), l[Len(l)])

\* zset, l.313-327: append the tuple, sort, return 1.  With a list among the
\* entries the sort compares a list with the tuple and raises TypeError; in
\* a sequence of up to three entries that comparison comes before any
\* entry is moved, so the tuple stays appended at the end.
zset(self, t, zset_key, score, value) ==
    LET zs == Append(GetOr(self.sorted_sets, zset_key, <<>>), Pair(score, value))
    IN  IF \A i, j \in 1..Len(zs) : zs[i].tup = zs[j].tup
        THEN Out([self EXCEPT !.sorted_sets = Put(@, zset_key, SortPairs(zs))], IntV(1))
        ELSE Out([self EXCEPT !.sorted_sets = Put(@, zset_key, zs)], Err("TypeError"))

\* [value for _, value in pairs]
MembersOf(pairs) == [i \in 1..Len(pairs) |-> pairs[i].m]
\* reversed(l)
Reversed(l) == [i \in 1..Len(l) |-> l[Len(l) + 1 - i]]

\* zrange, l.329-343
zrange(self, t, zset_key, start, end) ==
    IF zset_key \in DOMAIN self.sorted_sets
    THEN Out(self, List(MembersOf(Slice(self.sorted_sets[zset_key], start, end + 1))))
    ELSE Out(self, List(<<>>))

\* zrevrange, l.345-359: `stop = int(stop)` (l.351) reads the local `stop`,
\* which is never assigned: UnboundLocalError, raised again by except
zrevrange(self, t, zset_key, start, end) ==
    IF zset_key \in DOMAIN self.sorted_sets
    THEN Out(self, Err("UnboundLocalError"))
    ELSE Out(self, List(<<>>))

\* zdelvalue, l.361-375
zdelvalue(self, t, zset_key, value) ==
    IF zset_key \in DOMAIN self.sorted_sets
    THEN Out([self EXCEPT !.sorted_sets =
                 Put(@, zset_key, SelectSeq(self.sorted_sets[zset_key],
                                            LAMBDA item : item.m # value))],
             IntV(1))
    ELSE Out(self, IntV(0))

\* zdelkey, l.377-389
zdelkey(self, t, zset_key) ==
    IF zset_key \in DOMAIN self.sorted_sets
    THEN Out([self EXCEPT !.sorted_sets = Pop(@, zset_key)], IntV(1))
    ELSE Out(self, IntV(0))

\* zrank, l.392-406: the first idx with item == value, counted from 0
zrank(self, t, zset_key, value) ==
    LET zs == GetOr(self.sorted_sets, zset_key, <<>>)
        at == {i \in 1..Len(zs) : zs[i].m = value}
    IN  IF at = {} THEN Out(self, None)
        ELSE Out(self, IntV((CHOOSE i \in at : \A j \in at : i <= j) - 1))

\* _load_snapshot, l.54-67, on the engine __init__ has made (l.12-14: three
\* empty dicts): no file, nothing is read; a file that is not a whole JSON
\* document, json.load raises; l.60 assigns data_store; l.61-63 builds
\* expiry_times and raises before assigning it when a deadline is not a
\* number (float(v) of a str that is no numeral, or of None); l.64 assigns
\* sorted_sets.  except (l.66) logs and goes on.
_load_snapshot(file) ==
    LET new == [data_store |-> EmptyMap, expiry_times |-> EmptyMap,
                sorted_sets |-> EmptyMap, disk |-> file]
    IN  IF ~file.exists \/ ~file.valid THEN new
        ELSE LET s1 == [new EXCEPT !.data_store = file.data]
             IN  IF \E k \in DOMAIN file.expiry : file.expiry[k].t # "int"
                 THEN s1
                 ELSE [s1 EXCEPT
                         !.expiry_times = [k \in DOMAIN file.expiry |-> file.expiry[k].n],
                         !.sorted_sets = file.sorted_sets]

\* one pass of the sweeper's loop body
_cleanup_expired_keys(self, t) ==
    LET expired_keys == {key \in DOMAIN self.expiry_times : self.expiry_times[key] <= t}
    IN  [self EXCEPT
            !.data_store = [x \in (DOMAIN @) \ expired_keys |-> @[x]],
            !.expiry_times = [x \in (DOMAIN @) \ expired_keys |-> @[x]]]

\* ------------------------------------------------------------ state machine
\* no snapshot file on disk
NoFile == [exists |-> FALSE, valid |-> FALSE, data |-> EmptyMap,
           expiry |-> EmptyMap, sorted_sets |-> EmptyMap]

\* the caller holds no mapping; no save has begun
NoHandle == [key |-> "", live |-> FALSE, h |-> EmptyMap]
\* size: len(data_store) when the iteration began; seen: the items visited;
\* out: the items written; k, ref, i, part: the list being written, its key,
\* the index of its next element, the elements written; prev: the file
\* when the save began; doc: the document this save wrote in full, if any
NoSer == [size |-> 0, seen |-> {}, out |-> EmptyMap, k |-> "", ref |-> 0,
          i |-> 0, part |-> <<>>, prev |-> NoFile, doc |-> NoFile]

\* `last` is the most recent client call that returned: op, key, value
\* argument (val), numeric argument (n: ex or seconds), the value returned,
\* the op of the call before it when that was one of PrevOps (prev), and
\* what the key was when the call began: in data_store (had), in
\* expiry_times (vol), deadline <= clock (due).  seq flips at every call.
PrevOps == {"set", "delete", "expire", "persist"}
NoCall == [seq |-> 0, op |-> "", prev |-> "", key |-> "", val |-> None, n |-> 0,
           had |-> FALSE, vol |-> FALSE, due |-> FALSE, ret |-> None]

\* no thread owns the lock
free_lock == 0

NoArgs == [op |-> "", key |-> "", val |-> None, n |-> 0]

Init ==
    /\ data_store = EmptyMap
    /\ expiry_times = EmptyMap
    /\ sorted_sets = EmptyMap
    /\ disk = NoFile
    /\ now = 0
    /\ last = NoCall
    /\ pc = [t \in Threads |-> "idle"]
    /\ call = [t \in Threads |-> NoArgs]
    /\ lst = [t \in Threads |-> None]
    /\ iter = [t \in Threads |-> 0]
    /\ ret = [t \in Threads |-> None]
    /\ lock = free_lock
    /\ lock_list = 0
    /\ heap = <<>>
    /\ prior = [t \in Threads |-> {}]
    /\ held = NoHandle
    /\ ser = [t \in Threads |-> NoSer]
    /\ views = {}

\* The key has an expiry entry whose deadline is not after the clock.
Due(key) == key \in DOMAIN expiry_times /\ expiry_times[key] <= now

\* A client call returns: the engine takes the call's result, and `last`
\* records the call, what it returned, and what the key was when it began.
Record(o, op, key, val, n) ==
    /\ data_store' = o.self.data_store
    /\ expiry_times' = o.self.expiry_times
    /\ sorted_sets' = o.self.sorted_sets
    /\ disk' = o.self.disk
    /\ last' = [seq |-> 1 - last.seq, op |-> op,
                prev |-> IF last.op \in PrevOps THEN last.op ELSE "", key |-> key, val |-> val, n |-> n,
                had |-> key \in DOMAIN data_store,
                vol |-> key \in DOMAIN expiry_times,
                due |-> Due(key), ret |-> o.ret]
    /\ UNCHANGED <<now, threadvars>>
Commit(o, op, key, val, n) == Record(o, op, key, val, n) /\ UNCHANGED aux

\* the pushed values fit the model's bound on the length of a list
Fits(key, values) ==
    IF key \in DOMAIN data_store /\ data_store[key].t = "list"
    THEN Len(data_store[key].l) + Len(values) <= MaxLen
    ELSE Len(values) <= MaxLen

DoSet(K) == \E key \in K, value \in Strs, ex \in Secs \cup {NoEx} :
    Commit(set(Self, now, key, Str(value), ex), "set", key, Str(value), ex)
DoGet(K) == \E key \in K : Commit(get(Self, now, key), "get", key, None, 0)
DoDelete(K) == \E key \in K : Commit(delete(Self, now, key), "delete", key, None, 0)
DoExists(K) == \E key \in K : Commit(exists(Self, now, key), "exists", key, None, 0)
DoExpire(K) == \E key \in K, seconds \in Secs :
    Commit(expire(Self, now, key, seconds), "expire", key, None, seconds)
DoTtl(K) == \E key \in K : Commit(ttl(Self, now, key), "ttl", key, None, 0)
DoPersist(K) == \E key \in K : Commit(persist(Self, now, key), "persist", key, None, 0)
DoFlushall == Commit(flushall(Self, now), "flushall", "", None, 0)
DoHset(K) == \E key \in K, field \in Fields, value \in Strs :
    Commit(hset(Self, now, key, field, value), "hset", key, Str(value), 0)
DoHget(K) == \E key \in K, field \in Fields :
    Commit(hget(Self, now, key, field), "hget", key, None, 0)
DoHdel(K) == \E key \in K, field \in Fields :
    Commit(hdel(Self, now, key, field), "hdel", key, None, 0)
DoHgetall(K) == \E key \in K : Commit(hgetall(Self, now, key), "hgetall", key, None, 0)
DoHdelall(K) == \E key \in K : Commit(hdelall(Self, now, key), "hdelall", key, None, 0)
DoLpush(K) == \E key \in K, values \in PushArgs :
    /\ Fits(key, values)
    /\ Commit(lpush(Self, now, key, values), "lpush", key, List(values), 0)
DoRpush(K) == \E key \in K, values \in PushArgs :
    /\ Fits(key, values)
    /\ Commit(rpush(Self, now, key, values), "rpush", key, List(values), 0)
DoLpop(K) == \E key \in K : Commit(lpop(Self, now, key), "lpop", key, None, 0)
DoRpop(K) == \E key \in K : Commit(rpop(Self, now, key), "rpop", key, None, 0)
DoLrange(K) == \E key \in K, start \in RangeArgs, stop \in RangeArgs :
    Commit(lrange(Self, now, key, start, stop), "lrange", key, None, 0)
DoLlen(K) == \E key \in K : Commit(llen(Self, now, key), "llen", key, None, 0)
DoDelpush(K) == \E key \in K : Commit(delpush(Self, now, key), "delpush", key, None, 0)

\* the string append leaves fits the model's bound on the length of a str
DoAppend(K) == \E key \in K, value \in Strs :
    /\ (key \in DOMAIN data_store /\ data_store[key].t = "str")
         => Len(data_store[key].s) + Len(value) <= MaxStr
    /\ Commit(append(Self, now, key, value), "append", key, Str(value), 0)

\* pushes of several values at once, on lists of up to MaxList values
BatchLpush(K) == \E key \in K, values \in BatchArgs :
    /\ Len(GetOr(data_store, key, None).l) + Len(values) <= MaxList
    /\ Commit(lpush(Self, now, key, values), "lpush", key, List(values), 0)
BatchRpush(K) == \E key \in K, values \in BatchArgs :
    /\ Len(GetOr(data_store, key, None).l) + Len(values) <= MaxList
    /\ Commit(rpush(Self, now, key, values), "rpush", key, List(values), 0)

\* sorted sets of up to MaxZ entries
DoZset(K) == \E key \in K, score \in Scores, value \in Members :
    /\ Len(GetOr(sorted_sets, key, <<>>)) < MaxZ
    /\ Commit(zset(Self, now, key, score, value), "zset", key, Str(value), score)
DoZrange(K) == \E key \in K, start \in RangeArgs, end \in RangeArgs :
    Commit(zrange(Self, now, key, start, end), "zrange", key, IntV(start), end)
DoZrevrange(K) == \E key \in K, start \in RangeArgs, end \in RangeArgs :
    Commit(zrevrange(Self, now, key, start, end), "zrevrange", key, IntV(start), end)
DoZdelvalue(K) == \E key \in K, value \in Members :
    Commit(zdelvalue(Self, now, key, value), "zdelvalue", key, Str(value), 0)
DoZdelkey(K) == \E key \in K : Commit(zdelkey(Self, now, key), "zdelkey", key, None, 0)
DoZrank(K) == \E key \in K, value \in Members :
    Commit(zrank(Self, now, key, value), "zrank", key, Str(value), 0)

\* The snapshot thread (l.85-90) saves, no write failing.
Snapshot == Commit(Out(_save_snapshot(Self), None), "_save_snapshot", "", None, 0)

\* The process ends and the server is started again (src/sever.py): a new
\* engine is constructed, and __init__ loads the snapshot file.
Restart ==
    Commit(Out(_load_snapshot(disk), None), "__init__", "", None, 0)

\* The sweeper thread wakes and runs one pass under the lock.
Sweep ==
    LET s == _cleanup_expired_keys(Self, now)
    IN  /\ data_store' = s.data_store
        /\ expiry_times' = s.expiry_times
        /\ UNCHANGED <<sorted_sets, disk, now, last, aux, threadvars>>

\* The wall clock advances.
Tick ==
    /\ now < MaxTime
    /\ now' = now + 1
    /\ UNCHANGED <<engine, last, aux, threadvars>>

Next ==
    \/ DoSet(Keys) \/ DoGet(Keys) \/ DoDelete(Keys) \/ DoExists(Keys)
    \/ DoExpire(Keys) \/ DoTtl(Keys) \/ DoPersist(Keys) \/ DoFlushall
    \/ DoHset(Keys) \/ DoHget(Keys) \/ DoHdel(Keys) \/ DoHgetall(Keys) \/ DoHdelall(Keys)
    \/ DoLpush(Keys) \/ DoRpush(Keys) \/ DoLpop(Keys) \/ DoRpop(Keys) \/ DoLrange(Keys) \/ DoLlen(Keys) \/ DoDelpush(Keys)
    \/ Sweep \/ Tick

Spec == Init /\ [][Next]_vars

\* The sweeper at work beside clients that set, persist and
\* delpush two keys; the sweeper thread is scheduled fairly.
SweepNext ==
    \/ DoSet(SweepKeys) \/ DoPersist(SweepKeys) \/ DoDelpush(SweepKeys)
    \/ Sweep \/ Tick

SweepSpec == Init /\ [][SweepNext]_vars /\ WF_vars(Sweep)

\* ------------------------------------------------ calls run step by step
\* Request threads run one call each, statement by statement; a step is
\* what runs without another thread being able to see a state in between.
MainOps == {"set", "delete", "expire"}
ListOps == {"lpush", "rpush", "lpop", "rpop", "llen", "delpush"}

\* a list object of the heap, as data_store and the locals refer to it
Ref(id) == [None EXCEPT !.t = "list", !.n = id]
IsRef(v) == v.t = "list" /\ v.n > 0
\* the value a reference stands for
Deref(v) == IF IsRef(v) THEN List(heap[v.n]) ELSE v
\* the keyspace with every list written out
Keyspace(ds, hp) ==
    [k \in DOMAIN ds |-> IF IsRef(ds[k]) THEN List(hp[ds[k].n]) ELSE ds[k]]
\* while a thread is inside _save_snapshot's `with self.lock:`, the
\* keyspace a step leaves is one more the running save could have seen
Observe(ds, hp) ==
    IF \E t \in Threads : pc[t] \in {"save_open", "dump_next", "dump_list", "dump_rest"}
    THEN views \cup {Keyspace(ds, hp)}
    ELSE views
\* len(v): the values of the model that are not lists are one-character strs
PyLen(v) == IF IsRef(v) THEN Len(heap[v.n]) ELSE 1

\* append among the calls that make a key a str, a hash, a list, or absent
AppendNext ==
    \/ DoSet(Keys) \/ DoAppend(Keys) \/ DoGet(Keys) \/ DoDelete(Keys)
    \/ DoHset(Keys) \/ DoRpush(Keys) \/ Tick

AppendSpec == Init /\ [][AppendNext]_vars

\* ------------------------------------------ the mapping hgetall hands out
\* hgetall (l.291) returns self.data_store.get(hash_key, {}): the stored
\* dict itself when the key holds one (live), a new {} when the key is
\* absent.  A str is returned as it is and cannot be written to.  While the
\* caller holds the stored dict, set, delete and hdelall on the key put
\* another object, or none, in its place: the caller is left with the old
\* dict and what it held.
AfterCall(op, key) ==
    IF op = "hgetall"
    THEN IF key \in DOMAIN data_store
         THEN IF data_store[key].t = "hash"
              THEN [key |-> key, live |-> TRUE, h |-> EmptyMap]
              ELSE NoHandle
         ELSE [key |-> key, live |-> FALSE, h |-> EmptyMap]
    ELSE IF held.live /\ key = held.key /\ op \in {"set", "delete", "hdelall"}
         THEN [held EXCEPT !.live = FALSE, !.h = data_store[key].h]
         ELSE held

HashCall(o, op, key, val, n) ==
    /\ Record(o, op, key, val, n)
    /\ held' = AfterCall(op, key)
    /\ UNCHANGED <<ser, views>>

HashSet(K) == \E key \in K, value \in Strs :
    HashCall(set(Self, now, key, Str(value), NoEx), "set", key, Str(value), NoEx)
HashDelete(K) == \E key \in K :
    HashCall(delete(Self, now, key), "delete", key, None, 0)
HashHset(K) == \E key \in K, field \in Fields, value \in Strs :
    HashCall(hset(Self, now, key, field, value), "hset", key, Str(value), 0)
HashHget(K) == \E key \in K, field \in Fields :
    HashCall(hget(Self, now, key, field), "hget", key, None, 0)
HashHdel(K) == \E key \in K, field \in Fields :
    HashCall(hdel(Self, now, key, field), "hdel", key, None, 0)
HashHgetall(K) == \E key \in K :
    HashCall(hgetall(Self, now, key), "hgetall", key, None, 0)
HashHdelall(K) == \E key \in K :
    HashCall(hdelall(Self, now, key), "hdelall", key, None, 0)

\* The caller of hgetall writes to the mapping it was given: d[field] = value
\* or d.pop(field, None).  When that mapping is the stored dict, the write
\* is a write to data_store[key].
CallerWrites ==
    /\ held.key # ""
    /\ \E field \in Fields, value \in Strs, pop \in BOOLEAN :
        LET d == IF held.live THEN data_store[held.key].h ELSE held.h
            written == IF pop THEN Pop(d, field) ELSE Put(d, field, value)
        IN  IF held.live
            THEN /\ data_store' = Put(data_store, held.key, Hash(written))
                 /\ UNCHANGED held
            ELSE /\ held' = [held EXCEPT !.h = written]
                 /\ UNCHANGED data_store
    /\ UNCHANGED <<expiry_times, sorted_sets, disk, now, last, ser, views, threadvars>>

HashNext ==
    \/ HashSet(Keys) \/ HashDelete(Keys) \/ HashHset(Keys) \/ HashHget(Keys)
    \/ HashHdel(Keys) \/ HashHgetall(Keys) \/ HashHdelall(Keys)
    \/ CallerWrites

HashSpec == Init /\ [][HashNext]_vars

\* the list operations on one key
ListNext ==
    \/ BatchLpush(Keys) \/ BatchRpush(Keys) \/ DoLpop(Keys) \/ DoRpop(Keys)
    \/ DoLrange(Keys) \/ DoLlen(Keys) \/ DoDelpush(Keys)

ListSpec == Init /\ [][ListNext]_vars

\* values of every type, deadlines and sorted sets; snapshots and restarts
RoundNext ==
    \/ DoSet(Keys) \/ DoRpush(Keys) \/ DoHset(Keys) \/ DoZset(Keys)
    \/ Snapshot \/ Restart

RoundSpec == Init /\ [][RoundNext]_vars

\* ------------------------------------------------------ loading a snapshot
\* The files an engine may find at construction: none; or a file whose
\* text is a whole JSON document or is cut short, and whose 'expiry' values
\* are numbers, strs or null.
Maps(K, V) == UNION {[D -> V] : D \in SUBSET K}
LoadFiles ==
    {NoFile} \cup
    {[exists |-> TRUE, valid |-> v, data |-> d, expiry |-> x, sorted_sets |-> z] :
        v \in BOOLEAN,
        d \in Maps(Keys, {Str("a"), List(<<"a">>), Hash([f \in Fields |-> "a"])}),
        x \in Maps(Keys, {IntV(1), IntV(MaxTime + 1), Str("a"), None}),
        z \in Maps(Keys, {JsonPairs(<<Pair(1, "a")>>)})}

LoadInit ==
    /\ disk \in LoadFiles
    /\ data_store = EmptyMap
    /\ expiry_times = EmptyMap
    /\ sorted_sets = EmptyMap
    /\ now = 0
    /\ last = NoCall
    /\ pc = [t \in Threads |-> "idle"]
    /\ call = [t \in Threads |-> NoArgs]
    /\ lst = [t \in Threads |-> None]
    /\ iter = [t \in Threads |-> 0]
    /\ ret = [t \in Threads |-> None]
    /\ lock = free_lock
    /\ lock_list = 0
    /\ heap = <<>>
    /\ prior = [t \in Threads |-> {}]
    /\ held = NoHandle
    /\ ser = [t \in Threads |-> NoSer]
    /\ views = {}

\* __init__ runs _load_snapshot on the file, then reads of the key
LoadNext == Restart \/ DoGet(Keys) \/ DoTtl(Keys)

LoadSpec == LoadInit /\ [][LoadNext]_vars

\* the sorted-set operations, snapshots and restarts
ZNext ==
    \/ DoZset(Keys) \/ DoZrange(Keys) \/ DoZrevrange(Keys) \/ DoZdelvalue(Keys)
    \/ DoZdelkey(Keys) \/ DoZrank(Keys)
    \/ Snapshot \/ Restart

ZSpec == Init /\ [][ZNext]_vars

Args(op, key, val, n) == [op |-> op, key |-> key, val |-> val, n |-> n]

\* the calls the threads make on key k
SetDelCalls(k) ==
    {Args("set", k, Str(v), ex) : v \in Strs, ex \in {NoEx, 1}}
        \cup {Args("delete", k, None, 0)}
RaceCalls(k) ==
    {Args("set", k, Str("b"), NoEx), Args("delete", k, None, 0),
     Args("expire", k, None, 1)}
        \cup {Args("lpush", k, List(vs), 0) : vs \in {<<"a">>, <<"a", "b">>}}
        \cup {Args(op, k, None, 0) : op \in {"lpop", "rpop", "llen", "delpush"}}
        \cup {Args("rpush", k, List(<<"b">>), 0)}

\* the RPC server hands the call to the engine
Invoke(t, c) ==
    /\ pc[t] = "idle"
    /\ call' = [call EXCEPT ![t] = c]
    /\ pc' = [pc EXCEPT ![t] = "acquire"]
    /\ prior' = [prior EXCEPT ![t] = {u \in Threads : pc[u] = "done"}]
    /\ UNCHANGED <<engine, now, last, aux, lst, iter, ret, lock, lock_list, heap>>

\* the lock as it would be if acquiring it never waited
CanAcquire_nowait(t) == lock \in {free_lock} \cup Threads

\* self.lock is an RLock: free, or already held by this thread
CanAcquire(t) == lock \in {free_lock, t}

\* with self.lock:
Acquire(t) ==
    /\ pc[t] = "acquire" /\ call[t].op \in MainOps
    /\ CanAcquire(t)
    /\ lock' = t
    /\ pc' = [pc EXCEPT ![t] = CASE call[t].op = "set" -> "set_1"
                                 [] call[t].op = "delete" -> "delete_1"
                                 [] call[t].op = "expire" -> "expire_1"]
    /\ UNCHANGED <<engine, now, last, aux, call, lst, iter, ret, lock_list, heap, prior>>

\* with self.lock_list:
AcquireList(t) ==
    /\ pc[t] = "acquire" /\ call[t].op \in ListOps
    /\ lock_list = 0
    /\ lock_list' = t
    /\ pc' = [pc EXCEPT ![t] = IF call[t].op = "delpush" THEN "delpush_1" ELSE "gl_in"]
    /\ UNCHANGED <<engine, now, last, aux, call, lst, iter, ret, lock, heap, prior>>

\* leaving `with self.lock:` by return or by an exception
ReturnMain(t, r) ==
    /\ lock' = free_lock
    /\ ret' = [ret EXCEPT ![t] = r]
    /\ pc' = [pc EXCEPT ![t] = "done"]

\* leaving `with self.lock_list:` by return or by an exception
ReturnList(t, r) ==
    /\ lock_list' = 0
    /\ ret' = [ret EXCEPT ![t] = r]
    /\ pc' = [pc EXCEPT ![t] = "done"]

\* set, l.96: self.data_store[key] = value
set_1(t) ==
    /\ pc[t] = "set_1"
    /\ data_store' = Put(data_store, call[t].key, call[t].val)
    /\ pc' = [pc EXCEPT ![t] = "set_2"]
    /\ UNCHANGED <<expiry_times, sorted_sets, disk, now, last, aux, call, lst, iter,
                   ret, lock, lock_list, heap, prior>>

\* set, l.97-104: the deadline is stored or dropped; return "OK"
set_2(t) ==
    /\ pc[t] = "set_2"
    /\ expiry_times' = IF call[t].n # NoEx
                       THEN Put(expiry_times, call[t].key, now + call[t].n * TicksPerSec)
                       ELSE Pop(expiry_times, call[t].key)
    /\ ReturnMain(t, OK)
    /\ UNCHANGED <<data_store, sorted_sets, disk, now, last, aux, call, lst, iter,
                   lock_list, heap, prior>>

\* delete, l.130: value = self.data_store.pop(key, None)
delete_1(t) ==
    /\ pc[t] = "delete_1"
    /\ lst' = [lst EXCEPT ![t] = GetOr(data_store, call[t].key, None)]
    /\ data_store' = Pop(data_store, call[t].key)
    /\ pc' = [pc EXCEPT ![t] = "delete_2"]
    /\ UNCHANGED <<expiry_times, sorted_sets, disk, now, last, aux, call, iter,
                   ret, lock, lock_list, heap, prior>>

\* delete, l.131-134: self.expiry_times.pop(key, None); return value
delete_2(t) ==
    /\ pc[t] = "delete_2"
    /\ expiry_times' = Pop(expiry_times, call[t].key)
    /\ ReturnMain(t, Deref(lst[t]))
    /\ UNCHANGED <<data_store, sorted_sets, disk, now, last, aux, call, lst, iter,
                   lock_list, heap, prior>>

\* expire, l.191: if key in self.data_store
expire_1(t) ==
    /\ pc[t] = "expire_1"
    /\ IF call[t].key \in DOMAIN data_store
       THEN pc' = [pc EXCEPT ![t] = "expire_2"] /\ UNCHANGED <<lock, ret>>
       ELSE ReturnMain(t, BoolV(FALSE))
    /\ UNCHANGED <<engine, now, last, aux, call, lst, iter, lock_list, heap, prior>>

\* expire, l.192-194: the deadline is stored; return True
expire_2(t) ==
    /\ pc[t] = "expire_2"
    /\ expiry_times' = Put(expiry_times, call[t].key, now + call[t].n * TicksPerSec)
    /\ ReturnMain(t, BoolV(TRUE))
    /\ UNCHANGED <<data_store, sorted_sets, disk, now, last, aux, call, lst, iter,
                   lock_list, heap, prior>>

\* _get_list, l.424: if key not in self.data_store
gl_in(t) ==
    /\ pc[t] = "gl_in"
    /\ pc' = [pc EXCEPT ![t] = IF call[t].key \notin DOMAIN data_store
                               THEN "gl_new" ELSE "gl_isinstance"]
    /\ UNCHANGED <<engine, now, last, aux, call, lst, iter, ret, lock, lock_list, heap, prior>>

\* _get_list, l.425: self.data_store[key] = []
gl_new(t) ==
    /\ pc[t] = "gl_new"
    /\ heap' = Append(heap, <<>>)
    /\ data_store' = Put(data_store, call[t].key, Ref(Len(heap) + 1))
    /\ pc' = [pc EXCEPT ![t] = "gl_return"]
    /\ UNCHANGED <<expiry_times, sorted_sets, disk, now, last, held, ser, call, lst, iter,
                   ret, lock, lock_list, prior>>
    /\ views' = Observe(data_store', heap')

\* _get_list, l.426-427: elif not isinstance(self.data_store[key], list): raise
gl_isinstance(t) ==
    /\ pc[t] = "gl_isinstance"
    /\ IF call[t].key \notin DOMAIN data_store
       THEN ReturnList(t, Err("KeyError"))
       ELSE IF data_store[call[t].key].t # "list"
            THEN ReturnList(t, Err("TypeError"))
            ELSE pc' = [pc EXCEPT ![t] = "gl_return"] /\ UNCHANGED <<lock_list, ret>>
    /\ UNCHANGED <<engine, now, last, aux, call, lst, iter, lock, heap, prior>>

\* _get_list, l.428: return self.data_store[key]; the caller binds lst
gl_return(t) ==
    /\ pc[t] = "gl_return"
    /\ IF call[t].key \notin DOMAIN data_store
       THEN ReturnList(t, Err("KeyError")) /\ UNCHANGED <<lst, iter>>
       ELSE /\ lst' = [lst EXCEPT ![t] = data_store[call[t].key]]
            /\ iter' = [iter EXCEPT ![t] = IF call[t].op = "lpush"
                                           THEN Len(call[t].val.l) ELSE 0]
            /\ pc' = [pc EXCEPT ![t] = call[t].op]
            /\ UNCHANGED <<lock_list, ret>>
    /\ UNCHANGED <<engine, now, last, aux, call, lock, heap, prior>>

\* lpush, l.434-435: one lst.insert(0, value) of the loop over
\* reversed(values), or the loop ends and the with block is left
lpush_insert(t) ==
    /\ pc[t] = "lpush"
    /\ IF iter[t] = 0
       THEN /\ lock_list' = 0
            /\ pc' = [pc EXCEPT ![t] = "push_len"]
            /\ UNCHANGED <<heap, iter, ret>>
       ELSE IF ~IsRef(lst[t])
            THEN ReturnList(t, Err("AttributeError")) /\ UNCHANGED <<heap, iter>>
            ELSE /\ heap' = [heap EXCEPT ![lst[t].n] = <<call[t].val.l[iter[t]]>> \o @]
                 /\ iter' = [iter EXCEPT ![t] = @ - 1]
                 /\ UNCHANGED <<pc, lock_list, ret>>
    /\ UNCHANGED <<engine, now, last, held, ser, call, lst, lock, prior>>
    /\ views' = Observe(data_store', heap')

\* rpush, l.442: lst.extend(values), and the with block is left
rpush_extend(t) ==
    /\ pc[t] = "rpush"
    /\ IF ~IsRef(lst[t])
       THEN ReturnList(t, Err("AttributeError")) /\ UNCHANGED heap
       ELSE /\ heap' = [heap EXCEPT ![lst[t].n] = @ \o call[t].val.l]
            /\ lock_list' = 0
            /\ pc' = [pc EXCEPT ![t] = "push_len"]
            /\ UNCHANGED ret
    /\ UNCHANGED <<engine, now, last, held, ser, call, lst, iter, lock, prior>>
    /\ views' = Observe(data_store', heap')

\* lpush l.436, rpush l.443: return len(lst), after the lock is released
push_len(t) ==
    /\ pc[t] = "push_len"
    /\ ret' = [ret EXCEPT ![t] = IntV(PyLen(lst[t]))]
    /\ pc' = [pc EXCEPT ![t] = "done"]
    /\ UNCHANGED <<engine, now, last, aux, call, lst, iter, lock, lock_list, heap, prior>>

\* lpop l.449-451, rpop l.457-459: if not lst: return None; return lst.pop(..)
pop_1(t) ==
    /\ pc[t] \in {"lpop", "rpop"}
    /\ IF ~IsRef(lst[t])
       THEN ReturnList(t, Err("AttributeError")) /\ UNCHANGED heap
       ELSE LET l == heap[lst[t].n]
            IN  IF l = <<>>
                THEN ReturnList(t, None) /\ UNCHANGED heap
                ELSE IF pc[t] = "lpop"
                     THEN /\ heap' = [heap EXCEPT ![lst[t].n] = Tail(l)]
                          /\ ReturnList(t, Str(Head(l)))
                     ELSE /\ heap' = [heap EXCEPT ![lst[t].n] = SubSeq(l, 1, Len(l) - 1)]
                          /\ ReturnList(t, Str(l[Len(l)]))
    /\ UNCHANGED <<engine, now, last, held, ser, call, lst, iter, lock, prior>>
    /\ views' = Observe(data_store', heap')

\* llen, l.474: return len(lst)
llen_1(t) ==
    /\ pc[t] = "llen"
    /\ ReturnList(t, IntV(PyLen(lst[t])))
    /\ UNCHANGED <<engine, now, last, aux, call, lst, iter, lock, heap, prior>>

\* delpush, l.482-484: self.data_store.pop(key, None); return "Success"
delpush_1(t) ==
    /\ pc[t] = "delpush_1"
    /\ data_store' = Pop(data_store, call[t].key)
    /\ ReturnList(t, Str("Success"))
    /\ UNCHANGED <<expiry_times, sorted_sets, disk, now, last, held, ser, call, lst, iter,
                   lock, heap, prior>>
    /\ views' = Observe(data_store', heap')

\* the call's frame is gone and the worker thread waits for a request
Return(t) ==
    /\ pc[t] = "done"
    /\ pc' = [pc EXCEPT ![t] = "idle"]
    /\ call' = [call EXCEPT ![t] = NoArgs]
    /\ lst' = [lst EXCEPT ![t] = None]
    /\ ret' = [ret EXCEPT ![t] = None]
    /\ prior' = [prior EXCEPT ![t] = {}]
    /\ UNCHANGED <<engine, now, last, aux, iter, lock, lock_list, heap>>

\* set and delete calls on one key from all the threads, again and again
SetDelNext ==
    \E t \in Threads :
        \/ \E c \in SetDelCalls("k1") : Invoke(t, c)
        \/ Acquire(t)
        \/ set_1(t) \/ set_2(t)
        \/ delete_1(t) \/ delete_2(t)
        \/ Return(t)

SetDelSpec == Init /\ [][SetDelNext]_vars

\* The engine as _load_snapshot leaves it (l.54-67) for the snapshot file
\* found at construction: no file, or a file that holds k1.
StartFiles ==
    {NoFile} \cup
    {Document([k \in {"k1"} |-> v], EmptyMap, EmptyMap) :
        v \in {Str("a"), List(<<"a">>)}}

RaceInit ==
    /\ disk \in StartFiles
    /\ heap = IF "k1" \in DOMAIN disk.data /\ disk.data["k1"].t = "list"
              THEN <<disk.data["k1"].l>> ELSE <<>>
    /\ data_store = [k \in DOMAIN disk.data |->
                        IF disk.data[k].t = "list" THEN Ref(1) ELSE disk.data[k]]
    /\ expiry_times = _load_snapshot(disk).expiry_times
    /\ sorted_sets = _load_snapshot(disk).sorted_sets
    /\ now = 0
    /\ last = NoCall
    /\ pc = [t \in Threads |-> "idle"]
    /\ call = [t \in Threads |-> NoArgs]
    /\ lst = [t \in Threads |-> None]
    /\ iter = [t \in Threads |-> 0]
    /\ ret = [t \in Threads |-> None]
    /\ lock = free_lock
    /\ lock_list = 0
    /\ prior = [t \in Threads |-> {}]
    /\ held = NoHandle
    /\ ser = [t \in Threads |-> NoSer]
    /\ views = {}

\* ---------------------------------------------- flushall and _save_snapshot
\* The file after open(.., 'w'), which exists and is empty, and when the
\* with block of open is left by an exception: the text written so far is
\* flushed, and is not a whole document.
Partial(out) == [NoFile EXCEPT !.exists = TRUE, !.data = out]

\* flushall, l.156: with self.lock:
flushall_acquire(t) ==
    /\ pc[t] = "acquire" /\ call[t].op = "flushall"
    /\ CanAcquire(t)
    /\ lock' = t
    /\ pc' = [pc EXCEPT ![t] = "flushall_1"]
    /\ UNCHANGED <<engine, now, last, aux, call, lst, iter, ret, lock_list, heap, prior>>

\* flushall, l.157: self.data_store.clear()
flushall_1(t) ==
    /\ pc[t] = "flushall_1"
    /\ data_store' = EmptyMap
    /\ pc' = [pc EXCEPT ![t] = "flushall_2"]
    /\ UNCHANGED <<expiry_times, sorted_sets, disk, now, last, aux, call, lst, iter,
                   ret, lock, lock_list, heap, prior>>

\* flushall, l.158: self.expiry_times.clear(); l.159 calls _save_snapshot
flushall_2(t) ==
    /\ pc[t] = "flushall_2"
    /\ expiry_times' = EmptyMap
    /\ pc' = [pc EXCEPT ![t] = "save_acquire"]
    /\ UNCHANGED <<data_store, sorted_sets, disk, now, last, aux, call, lst, iter,
                   ret, lock, lock_list, heap, prior>>

\* _save_snapshot's with self.lock as it would be if self.lock were a plain
\* Lock, which its owner cannot take a second time
save_acquire_plain(t) ==
    /\ \/ pc[t] = "save_acquire"
       \/ pc[t] = "acquire" /\ call[t].op = "_save_snapshot"
    /\ lock = free_lock
    /\ lock' = t
    /\ pc' = [pc EXCEPT ![t] = "save_open"]
    /\ ser' = [ser EXCEPT ![t] = [NoSer EXCEPT !.prev = disk]]
    /\ views' = {Keyspace(data_store, heap)}
    /\ UNCHANGED <<engine, now, last, held, call, lst, iter, ret, lock_list, heap, prior>>

\* _save_snapshot, l.72: with self.lock, called by flushall (which holds
\* the lock already) or by the snapshot thread (l.90)
save_acquire(t) ==
    /\ \/ pc[t] = "save_acquire"
       \/ pc[t] = "acquire" /\ call[t].op = "_save_snapshot"
    /\ CanAcquire(t)
    /\ lock' = t
    /\ pc' = [pc EXCEPT ![t] = "save_open"]
    /\ ser' = [ser EXCEPT ![t] = [NoSer EXCEPT !.prev = disk]]
    /\ views' = {Keyspace(data_store, heap)}
    /\ UNCHANGED <<engine, now, last, held, call, lst, iter, ret, lock_list, heap, prior>>

\* _save_snapshot, l.79-80: open(self.snapshot_file, 'w') truncates the
\* file, or fails (OSError); json.dump begins to iterate over data_store
save_open(t) ==
    /\ pc[t] = "save_open"
    /\ \E io \in {"ok", "OSError"} :
        IF io = "OSError"
        THEN pc' = [pc EXCEPT ![t] = "save_except"] /\ UNCHANGED <<disk, ser>>
        ELSE /\ disk' = Partial(EmptyMap)
             /\ ser' = [ser EXCEPT ![t].size = Cardinality(DOMAIN data_store)]
             /\ pc' = [pc EXCEPT ![t] = "dump_next"]
    /\ UNCHANGED <<data_store, expiry_times, sorted_sets, now, last, held, views,
                   call, lst, iter, ret, lock, lock_list, heap, prior>>

\* json.dump, the loop over data_store.items(): the iterator raises
\* RuntimeError when the dict has changed size; a str or a dict value is
\* written at once, a list value element by element
dump_next(t) ==
    /\ pc[t] = "dump_next"
    /\ LET todo == {k \in DOMAIN data_store : <<k, data_store[k]>> \notin ser[t].seen}
       IN  IF Cardinality(DOMAIN data_store) # ser[t].size
           THEN /\ disk' = Partial(ser[t].out)
                /\ pc' = [pc EXCEPT ![t] = "save_except"]
                /\ UNCHANGED ser
           ELSE IF todo = {}
                THEN pc' = [pc EXCEPT ![t] = "dump_rest"] /\ UNCHANGED <<disk, ser>>
                ELSE \E k \in todo :
                        /\ ser' = [ser EXCEPT
                                ![t].seen = @ \cup {<<k, data_store[k]>>},
                                ![t].out = IF IsRef(data_store[k]) THEN @
                                           ELSE Put(@, k, data_store[k]),
                                ![t].k = k, ![t].ref = data_store[k].n,
                                ![t].i = 0, ![t].part = <<>>]
                        /\ pc' = [pc EXCEPT ![t] = IF IsRef(data_store[k])
                                                   THEN "dump_list" ELSE "dump_next"]
                        /\ UNCHANGED disk
    /\ UNCHANGED <<data_store, expiry_times, sorted_sets, now, last, held, views,
                   call, lst, iter, ret, lock, lock_list, heap, prior>>

\* json.dump, the loop over one list: the list iterator yields the element
\* at its index while the index is below the list's present length
dump_list(t) ==
    /\ pc[t] = "dump_list"
    /\ LET l == heap[ser[t].ref]
       IN  IF ser[t].i < Len(l)
           THEN /\ ser' = [ser EXCEPT ![t].part = Append(@, l[ser[t].i + 1]),
                                      ![t].i = @ + 1]
                /\ UNCHANGED pc
           ELSE /\ ser' = [ser EXCEPT ![t].out = Put(@, ser[t].k, List(ser[t].part))]
                /\ pc' = [pc EXCEPT ![t] = "dump_next"]
    /\ UNCHANGED <<engine, now, last, held, views, call, lst, iter, ret, lock,
                   lock_list, heap, prior>>

\* json.dump writes 'expiry' and 'sorted_sets' (both change under self.lock
\* only) and the file is closed, l.80; or a write fails
dump_rest(t) ==
    /\ pc[t] = "dump_rest"
    /\ \E io \in {"ok", "OSError"} :
        IF io = "OSError"
        THEN /\ disk' = Partial(ser[t].out)
             /\ pc' = [pc EXCEPT ![t] = "save_except"]
             /\ UNCHANGED ser
        ELSE /\ disk' = Document(ser[t].out, expiry_times, sorted_sets)
             /\ ser' = [ser EXCEPT ![t].doc = disk']
             /\ pc' = [pc EXCEPT ![t] = "save_release"]
    /\ UNCHANGED <<data_store, expiry_times, sorted_sets, now, last, held, views,
                   call, lst, iter, ret, lock, lock_list, heap, prior>>

\* _save_snapshot, l.81-83: the with block is left, after the write or by
\* the exception that except logs; the save returns to its caller
save_exit(t) ==
    /\ pc[t] \in {"save_release", "save_except"}
    /\ IF call[t].op = "flushall"
       THEN pc' = [pc EXCEPT ![t] = "flushall_return"] /\ UNCHANGED <<lock, ret>>
       ELSE ReturnMain(t, None)
    /\ UNCHANGED <<engine, now, last, aux, call, lst, iter, lock_list, heap, prior>>

\* flushall, l.161: return "OK"
flushall_return(t) ==
    /\ pc[t] = "flushall_return"
    /\ ReturnMain(t, OK)
    /\ UNCHANGED <<engine, now, last, aux, call, lst, iter, lock_list, heap, prior>>

\* the calls of the threads while snapshots are taken: flushall, the
\* snapshot thread's _save_snapshot, and list operations on key k
SnapCalls(k) ==
    {Args("flushall", "", None, 0), Args("_save_snapshot", "", None, 0),
     Args("rpush", k, List(<<"b">>), 0), Args("lpop", k, None, 0),
     Args("delpush", k, None, 0)}

\* the engine starts from the snapshot it loaded: none, or one list
SnapFiles == {NoFile, Document([k \in {"k1"} |-> List(<<"a", "b">>)], EmptyMap, EmptyMap)}

SnapInit ==
    /\ disk \in SnapFiles
    /\ heap = IF disk.exists THEN <<disk.data["k1"].l>> ELSE <<>>
    /\ data_store = [k \in DOMAIN disk.data |-> Ref(1)]
    /\ expiry_times = EmptyMap
    /\ sorted_sets = EmptyMap
    /\ now = 0
    /\ last = NoCall
    /\ pc = [t \in Threads |-> "idle"]
    /\ call = [t \in Threads |-> NoArgs]
    /\ lst = [t \in Threads |-> None]
    /\ iter = [t \in Threads |-> 0]
    /\ ret = [t \in Threads |-> None]
    /\ lock = free_lock
    /\ lock_list = 0
    /\ prior = [t \in Threads |-> {}]
    /\ held = NoHandle
    /\ ser = [t \in Threads |-> NoSer]
    /\ views = {}

\* one call per thread
SnapNext ==
    \E t \in Threads :
        \/ \E c \in SnapCalls("k1") : Invoke(t, c)
        \/ AcquireList(t)
        \/ flushall_acquire(t) \/ flushall_1(t) \/ flushall_2(t)
        \/ save_acquire(t) \/ save_open(t) \/ dump_next(t) \/ dump_list(t)
        \/ dump_rest(t) \/ save_exit(t) \/ flushall_return(t)
        \/ gl_in(t) \/ gl_new(t) \/ gl_isinstance(t) \/ gl_return(t)
        \/ rpush_extend(t) \/ push_len(t) \/ pop_1(t) \/ delpush_1(t)

SnapSpec == SnapInit /\ [][SnapNext]_vars

\* one call per thread on one key, list operations and others together
RaceNext ==
    \E t \in Threads :
        \/ \E c \in RaceCalls("k1") : Invoke(t, c)
        \/ Acquire(t) \/ AcquireList(t)
        \/ set_1(t) \/ set_2(t)
        \/ delete_1(t) \/ delete_2(t)
        \/ expire_1(t) \/ expire_2(t)
        \/ gl_in(t) \/ gl_new(t) \/ gl_isinstance(t) \/ gl_return(t)
        \/ lpush_insert(t) \/ rpush_extend(t) \/ push_len(t)
        \/ pop_1(t) \/ llen_1(t) \/ delpush_1(t)

RaceSpec == RaceInit /\ [][RaceNext]_vars

\* ------------------------------------------------------------ properties
\* the step is a client call returning (Sweep and Tick leave `last` alone)
IsCall == last'.seq # last.seq

\* C1: dangling-expiry invariant: every key with an entry in the expiry
\* index is present in the primary keyspace.
NoDanglingExpiry == DOMAIN expiry_times \subseteq DOMAIN data_store

ReadOps == {"get", "exists", "hget", "hgetall", "lrange", "llen", "lpop", "rpop"}
\* what a read answers for a key that is not there
AbsentAnswer(op) ==
    CASE op \in {"get", "hget", "lpop", "rpop"} -> None
      [] op = "exists" -> BoolV(FALSE)
      [] op = "hgetall" -> Hash(EmptyMap)
      [] op = "lrange" -> List(<<>>)
      [] op = "llen" -> IntV(0)

\* C2: a read (get, exists, hget, hgetall, lrange, llen, lpop, rpop) of a key
\* whose deadline is <= now answers as if the key were absent, and the value
\* and the expiry entry are gone when it returns (a list read leaves at most
\* the empty list it creates for an absent key).
ExpiredNeverRead ==
    (last.op \in ReadOps /\ last.had /\ last.due)
        => /\ last.ret = AbsentAnswer(last.op)
           /\ last.key \notin DOMAIN expiry_times
           /\ last.key \in DOMAIN data_store => data_store[last.key] = List(<<>>)

\* C3: get and exists on a key that holds a value and whose deadline has
\* been reached return absent / false and remove both the value and the
\* expiry entry, whether or not the sweeper has run.
LazyExpiry ==
    (last.op \in {"get", "exists"} /\ last.had /\ last.due)
        => /\ last.ret = AbsentAnswer(last.op)
           /\ last.key \notin DOMAIN data_store
           /\ last.key \notin DOMAIN expiry_times
LazyExpiryWitness ==
    /\ last.op = "exists" /\ last.had /\ last.due
    /\ last.ret = BoolV(FALSE)

\* C4: the calls on one key are linearizable: when every call has
\* returned, some order of the calls that keeps each call after those that
\* had returned before it began gives, run one call at a time from the
\* starting state, the same return values and the same final engine state.
Orders == {o \in [1..NumThreads -> Threads] : \A i, j \in 1..NumThreads : o[i] = o[j] => i = j}
RespectsRealTime(o) ==
    \A i, j \in 1..NumThreads : o[i] \in prior[o[j]] => i < j
Apply(self, c) ==
    CASE c.op = "set" -> set(self, now, c.key, c.val, c.n)
      [] c.op = "delete" -> delete(self, now, c.key)
      [] c.op = "expire" -> expire(self, now, c.key, c.n)
      [] c.op = "lpush" -> lpush(self, now, c.key, c.val.l)
      [] c.op = "rpush" -> rpush(self, now, c.key, c.val.l)
      [] c.op = "lpop" -> lpop(self, now, c.key)
      [] c.op = "rpop" -> rpop(self, now, c.key)
      [] c.op = "llen" -> llen(self, now, c.key)
      [] c.op = "delpush" -> delpush(self, now, c.key)
RECURSIVE Replays(_, _, _)
Replays(o, i, self) ==
    IF i > NumThreads
    THEN /\ self.data_store = [k \in DOMAIN data_store |-> Deref(data_store[k])]
         /\ self.expiry_times = expiry_times
    ELSE LET r == Apply(self, call[o[i]])
         IN  r.ret = ret[o[i]] /\ Replays(o, i + 1, r.self)
StartEngine == _load_snapshot(disk)
Linearizable ==
    (\A t \in Threads : pc[t] = "done")
        => \E o \in Orders : RespectsRealTime(o) /\ Replays(o, 1, StartEngine)

\* C5: with any number of threads calling set (with or without a TTL) and
\* delete on one key, in any interleaving, whenever no thread is inside the
\* locked block every key of the expiry index is in the primary keyspace.
AtRest == \A t \in Threads : pc[t] \in {"idle", "acquire", "done"}
SetDeleteNoDangling ==
    AtRest => DOMAIN expiry_times \subseteq DOMAIN data_store
SetDeleteWitness ==
    \E t, u \in Threads :
        /\ t # u /\ pc[t] = "done" /\ pc[u] = "done"
        /\ t \notin prior[u] /\ u \notin prior[t]
        /\ call[t].op = "set" /\ call[t].n # NoEx
        /\ call[u].op = "delete" /\ ret[u] # None
        /\ "k1" \notin DOMAIN data_store

\* C6: a get that follows set(k, v) returns v, and a get that follows
\* delete(k) returns absent, whatever the state before.
SetGetDeleteGet ==
    [][(IsCall /\ last'.op = "get" /\ last'.key = last.key)
         => /\ (last.op = "set" /\ last.n = NoEx) => last'.ret = last.val
            /\ last.op = "delete" => last'.ret = None]_vars
SetGetWitness ==
    /\ last.op = "get" /\ last.prev = "set" /\ last.ret \in {Str(v) : v \in Strs}
    /\ ~last.vol

\* C7: set(k, v) without a TTL leaves k with the value v and no expiry
\* entry, whatever entry it had; and a key with no expiry entry is not
\* removed or changed by the sweeper, the clock, or get / exists / ttl.
SetNoTtlPermanent ==
    [][/\ (IsCall /\ last'.op = "set" /\ last'.n = NoEx)
            => /\ last'.key \notin DOMAIN expiry_times'
               /\ last'.key \in DOMAIN data_store'
               /\ data_store'[last'.key] = last'.val
       /\ \A k \in Keys :
            (/\ k \in DOMAIN data_store /\ k \notin DOMAIN expiry_times
             /\ (~IsCall \/ last'.op \in {"get", "exists", "ttl"}))
            => /\ k \in DOMAIN data_store' /\ data_store'[k] = data_store[k]
               /\ k \notin DOMAIN expiry_times']_vars
SetNoTtlWitness ==
    /\ last.op = "set" /\ last.n = NoEx /\ last.due
    /\ last.key \in DOMAIN data_store /\ last.key \notin DOMAIN expiry_times
    /\ now = MaxTime

\* C8: expire(k, s) on a key that is not in the primary keyspace returns
\* false and changes nothing; on a key that is there it returns true and
\* sets the deadline to now + s, changing nothing else; a ttl(k) that
\* follows expire(k, 100) = true returns a value in (0, 100].
ExpireContract ==
    [][/\ (IsCall /\ last'.op = "expire")
            => IF last'.key \in DOMAIN data_store
               THEN /\ last'.ret = BoolV(TRUE)
                    /\ expiry_times' = Put(expiry_times, last'.key,
                                           now + last'.n * TicksPerSec)
                    /\ data_store' = data_store
               ELSE /\ last'.ret = BoolV(FALSE)
                    /\ UNCHANGED engine
       /\ (/\ IsCall /\ last'.op = "ttl" /\ last'.key = last.key
           /\ last.op = "expire" /\ last.n = 100 /\ last.ret = BoolV(TRUE))
            => last'.ret.t = "int" /\ last'.ret.n > 0 /\ last'.ret.n <= 100]_vars
ExpireWitness ==
    /\ last.op = "ttl" /\ last.prev = "expire"
    /\ last.ret.n > 0 /\ last.ret.n <= 100
    /\ last.key \in DOMAIN expiry_times /\ expiry_times[last.key] >= 100 * TicksPerSec

\* C9: ttl(k) is -2 for a key that does not exist (or whose deadline has
\* passed), -1 for a key with no expiry entry, and otherwise the whole
\* seconds remaining, a number >= 0; persist(k) is true exactly when k
\* exists with an expiry entry; ttl after persist after expire is -1.
TtlPersistContract ==
    [][/\ (IsCall /\ last'.op = "ttl")
            => last'.ret =
                 IF last'.key \notin DOMAIN data_store THEN IntV(-2)
                 ELSE IF last'.key \notin DOMAIN expiry_times THEN IntV(-1)
                 ELSE IF expiry_times[last'.key] <= now THEN IntV(-2)
                 ELSE IntV((expiry_times[last'.key] - now) \div TicksPerSec)
       /\ (IsCall /\ last'.op = "persist")
            => last'.ret = BoolV(/\ last'.key \in DOMAIN data_store
                                 /\ last'.key \in DOMAIN expiry_times)
       /\ (/\ IsCall /\ last'.op = "ttl" /\ last'.key = last.key
           /\ last.op = "persist" /\ last.prev = "expire" /\ last.ret = BoolV(TRUE))
            => last'.ret = IntV(-1)]_vars
\* C10: with the sweeper scheduled fairly, a key whose deadline has passed
\* is eventually gone from the primary keyspace and from the expiry index
\* unless a client call comes first; and a pass of the sweeper removes or
\* changes no key whose deadline is not <= the clock.
Gone(k) == k \notin DOMAIN data_store /\ k \notin DOMAIN expiry_times
SweeperRemovesDue ==
    /\ \A k \in SweepKeys, b \in {0, 1} :
         (Due(k) /\ last.seq = b) ~> (Gone(k) \/ last.seq # b)
    /\ [][(~IsCall /\ now' = now)
            => \A k \in SweepKeys :
                 ~Due(k) => /\ (k \in DOMAIN data_store <=> k \in DOMAIN data_store')
                            /\ k \in DOMAIN data_store => data_store'[k] = data_store[k]
                            /\ (k \in DOMAIN expiry_times <=> k \in DOMAIN expiry_times')
                            /\ k \in DOMAIN expiry_times
                                  => expiry_times'[k] = expiry_times[k]]_vars
SweeperWitness ==
    /\ last.op = "set" /\ last.n = 1 /\ Gone(last.key)
    /\ \E k \in SweepKeys :
         /\ k # last.key /\ k \in DOMAIN data_store
         /\ k \in DOMAIN expiry_times /\ expiry_times[k] > now

\* C11: whenever a flushall call has returned "OK", whatever ran beside it,
\* the _save_snapshot of that call wrote a whole document, and that
\* document holds no key and no deadline.
FlushallSnapshot ==
    \A t \in Threads :
        (pc[t] = "done" /\ call[t].op = "flushall" /\ ret[t] = OK)
            => /\ ser[t].doc.valid
               /\ ser[t].doc.data = EmptyMap
               /\ ser[t].doc.expiry = EmptyMap

\* C12: append to a key that is absent or holds a value that is not a str
\* returns a message (it does not raise) and leaves the keyspace and the
\* expiry index as they were, the key not created; append to a key that
\* holds a str stores the old string followed by the text and returns the
\* length of the result.
AppendContract ==
    [][(IsCall /\ last'.op = "append")
        => LET k == last'.key
               text == last'.val.s
           IN  IF k \in DOMAIN data_store /\ data_store[k].t = "str"
               THEN /\ data_store' = Put(data_store, k, Str(data_store[k].s \o text))
                    /\ last'.ret = IntV(Len(data_store[k].s) + Len(text))
                    /\ expiry_times' = expiry_times
               ELSE /\ last'.ret.t = "str"
                    /\ data_store' = data_store
                    /\ expiry_times' = expiry_times]_vars
AppendWitness ==
    /\ last.op = "append" /\ last.key = "k1" /\ last.val = Str("b")
    /\ last.ret = IntV(2)
    /\ "k1" \in DOMAIN data_store /\ data_store["k1"] = Str("ab")
    /\ "k1" \in DOMAIN expiry_times

\* C13: what hgetall returned is a copy: when the caller writes to the
\* mapping it was given, every hget and every hgetall answers afterwards
\* what it answered before the write.
HgetallIsolated ==
    [][~IsCall
        => \A k \in Keys :
             /\ hgetall(Self', now, k).ret = hgetall(Self, now, k).ret
             /\ \A f \in Fields : hget(Self', now, k, f).ret = hget(Self, now, k, f).ret]_vars

\* C14: zrevrange on a sorted set that exists returns (it does not raise)
\* the members in descending order, positions start..end inclusive counted
\* from the top, the mirror image of zrange; and zrevrange(key, 0, n - 1)
\* is zrange(key, 0, n - 1) reversed.
ZrevrangeMirrorsZrange ==
    [][(IsCall /\ last'.op = "zrevrange" /\ last'.key \in DOMAIN sorted_sets)
        => LET zs == sorted_sets[last'.key]
               start == last'.val.n
               end == last'.n
           IN  /\ last'.ret.t = "list"
               /\ last'.ret.l = Slice(Reversed(MembersOf(zs)), start, end + 1)
               /\ (start = 0 /\ end = Len(zs) - 1)
                    => last'.ret.l = Reversed(zrange(Self, now, last'.key, start, end).ret.l)]_vars

\* C15: every stored sorted set is in ascending order of (score, member),
\* equal pairs allowed, whatever zset, zdelvalue and zdelkey calls were
\* made; and zrank(key, m) returns the index, from 0, of the first entry
\* whose member is m.
Ascending(zs) == \A i, j \in 1..Len(zs) : i < j => ~PairLess(zs[j], zs[i])
SortedSetOrder ==
    /\ [](\A k \in DOMAIN sorted_sets : Ascending(sorted_sets[k]))
    /\ [][(IsCall /\ last'.op = "zrank")
            => LET zs == GetOr(sorted_sets, last'.key, <<>>)
                   at == {i \in 1..Len(zs) : zs[i].m = last'.val.s}
               IN  \A i \in at : (\A j \in at : i <= j) => last'.ret = IntV(i - 1)]_vars

\* C16: lpush puts its values at the head in the order they were given,
\* rpush at the tail; lpop returns the head and rpop the tail.  So on an
\* empty list lpush [a, b, c] gives [a, b, c], lpush [d, e] then gives
\* [d, e, a, b, c], and from there rpop returns c and lpop returns d.
Before(k) == IF k \in DOMAIN data_store THEN data_store[k].l ELSE <<>>
PushOrder ==
    [][(IsCall /\ last'.op \in {"lpush", "rpush", "lpop", "rpop"})
        => LET k == last'.key
               old == Before(k)
               values == last'.val.l
           IN  /\ last'.op = "lpush"
                    => /\ data_store'[k] = List(values \o old)
                       /\ last'.ret = IntV(Len(values) + Len(old))
               /\ last'.op = "rpush"
                    => /\ data_store'[k] = List(old \o values)
                       /\ last'.ret = IntV(Len(values) + Len(old))
               /\ (last'.op = "lpop" /\ old # <<>>)
                    => /\ last'.ret = Str(old[1])
                       /\ data_store'[k] = List(Tail(old))
               /\ (last'.op = "rpop" /\ old # <<>>)
                    => /\ last'.ret = Str(old[Len(old)])
                       /\ data_store'[k] = List(SubSeq(old, 1, Len(old) - 1))
               /\ (old = <<>> /\ last'.op = "lpush" /\ values = <<"a", "b", "c">>)
                    => data_store'[k] = List(<<"a", "b", "c">>)
               /\ (old = <<"a", "b", "c">> /\ last'.op = "lpush" /\ values = <<"d", "e">>)
                    => data_store'[k] = List(<<"d", "e", "a", "b", "c">>)
               /\ (old = <<"d", "e", "a", "b", "c">> /\ last'.op = "rpop")
                    => last'.ret = Str("c")
               /\ (old = <<"d", "e", "a", "b">> /\ last'.op = "lpop")
                    => last'.ret = Str("d")]_vars
PushOrderWitness ==
    /\ last.op = "lpush" /\ last.key = "k1" /\ last.val = List(<<"d", "e">>)
    /\ last.had /\ last.ret = IntV(5)
    /\ "k1" \in DOMAIN data_store
    /\ data_store["k1"] = List(<<"d", "e", "a", "b", "c">>)

\* C17: a snapshot saved and then loaded by a new engine gives that engine
\* the keyspace, the expiry index (the same deadlines) and the sorted sets
\* the saving engine had, every list, hash and string of its own type.
SnapshotRoundTrip ==
    [][(IsCall /\ last'.op = "__init__" /\ last.op = "_save_snapshot")
        => /\ data_store' = data_store
           /\ expiry_times' = expiry_times
           /\ sorted_sets' = sorted_sets]_vars

\* C18: while a save has not finished writing, and after it has failed at
\* open, in json.dump or at a write, the snapshot file is what it was when
\* the save began: a save that fails or is cut off leaves the previous
\* snapshot as it was.
FailedSaveKeepsFile ==
    \A t \in Threads :
        pc[t] \in {"dump_next", "dump_list", "dump_rest", "save_except"}
            => disk = ser[t].prev

\* C19: a load that fails (the file is not a whole JSON document, or a
\* deadline in it is not a number) leaves the new engine empty: no key, no
\* deadline, no sorted set.
LoadFails(file) ==
    /\ file.exists
    /\ ~file.valid \/ \E k \in DOMAIN file.expiry : file.expiry[k].t # "int"
FailedLoadLeavesEmpty ==
    [][(IsCall /\ last'.op = "__init__" /\ LoadFails(disk))
        => /\ data_store' = EmptyMap
           /\ expiry_times' = EmptyMap
           /\ sorted_sets' = EmptyMap]_vars

\* C20: the document a completed save wrote is the engine's state at one
\* instant between the save taking the lock and the file being closed,
\* whatever list operations ran meanwhile.
SnapshotAtomicView ==
    \A t \in Threads :
        pc[t] = "save_release"
            => /\ ser[t].doc.data \in views
               /\ ser[t].doc.expiry = [k \in DOMAIN expiry_times |-> IntV(expiry_times[k])]
               /\ ser[t].doc.sorted_sets =
                      [k \in DOMAIN sorted_sets |-> JsonPairs(sorted_sets[k])]

\* C21: once the deadline of a key that holds a value has passed, the old
\* value is not seen again unless a call stores a new one: expire and
\* persist on the key return false, and after any step that is not such a
\* store a get of the key still returns None.
NewWrites == {"set", "hset", "lpush", "rpush"}
ExpiredIsTerminal ==
    [][\A k \in Keys :
         (k \in DOMAIN data_store /\ Due(k))
            => /\ (IsCall /\ last'.key = k /\ last'.op \in {"expire", "persist"})
                    => last'.ret = BoolV(FALSE)
               /\ ~(IsCall /\ last'.key = k /\ last'.op \in NewWrites)
                    => get(Self', now', k).ret = None]_vars

\* C22: a key whose deadline is strictly later than the clock is not removed
\* or changed, and keeps its deadline, across any query (get, exists, ttl,
\* hget, hgetall, lrange, llen) and any pass of the sweeper; and a ttl that
\* removes a stored key and returns -2 does so only when the deadline is
\* <= the clock, also when less than one whole second remains.
QueryOps == {"get", "exists", "ttl", "hget", "hgetall", "lrange", "llen"}
NoPrematureExpiry ==
    [][/\ \A k \in Keys :
            (/\ k \in DOMAIN data_store /\ k \in DOMAIN expiry_times
             /\ expiry_times[k] > now
             /\ \/ IsCall /\ last'.op \in QueryOps
                \/ ~IsCall /\ now' = now)
               => /\ k \in DOMAIN data_store' /\ data_store'[k] = data_store[k]
                  /\ k \in DOMAIN expiry_times' /\ expiry_times'[k] = expiry_times[k]
       /\ (/\ IsCall /\ last'.op = "ttl" /\ last'.ret = IntV(-2)
           /\ last'.key \in DOMAIN data_store)
            => Due(last'.key)]_vars

\* ------------------------------------------------- the locks and the threads
\* the cleanup thread started by __init__, as an owner of self.lock
Sweeper == NumThreads + 1

\* _cleanup_expired_keys, l.42-43: the sleep is over; with self.lock:
cleanup_acquire ==
    /\ lock = free_lock
    /\ lock' = Sweeper
    /\ UNCHANGED <<engine, now, last, aux, pc, call, lst, iter, ret, lock_list, heap, prior>>

\* _cleanup_expired_keys, l.44-52: the due keys are popped and the with
\* block is left
cleanup_pass ==
    /\ lock = Sweeper
    /\ LET s == _cleanup_expired_keys(Self, now)
       IN  /\ data_store' = s.data_store
           /\ expiry_times' = s.expiry_times
    /\ lock' = free_lock
    /\ UNCHANGED <<sorted_sets, disk, now, last, aux, pc, call, lst, iter, ret,
                   lock_list, heap, prior>>

\* the calls that take self.lock, take it twice, or take self.lock_list
LockCalls(k) ==
    {Args("flushall", "", None, 0), Args("_save_snapshot", "", None, 0),
     Args("set", k, Str("b"), NoEx), Args("delpush", k, None, 0)}

\* a step of thread t inside a call
Step(t) ==
    \/ Acquire(t) \/ AcquireList(t) \/ set_1(t) \/ set_2(t) \/ delpush_1(t)
    \/ flushall_acquire(t) \/ flushall_1(t) \/ flushall_2(t)
    \/ save_acquire(t) \/ save_open(t) \/ dump_next(t)
    \/ dump_rest(t) \/ save_exit(t) \/ flushall_return(t)

\* one call per request thread, beside the cleanup thread
LockNext ==
    \/ \E t \in Threads :
          \/ \E c \in LockCalls("k1") : Invoke(t, c)
          \/ Step(t)
    \/ cleanup_acquire \/ cleanup_pass

\* Fair scheduling: a thread that can run does run, a thread blocked on a
\* lock that is released again and again gets it, and the cleanup thread
\* leaves its with block.
LockSpec ==
    /\ Init /\ [][LockNext]_vars
    /\ \A t \in Threads : SF_vars(Step(t))
    /\ WF_vars(cleanup_pass)

\* C23: with fair scheduling every call that waits for self.lock or for
\* self.lock_list acquires it and returns; flushall's nested _save_snapshot
\* finds the lock it already holds acquirable; and no thread holds one of
\* the two locks while it waits for the other.
Waiting(t) == pc[t] \in {"acquire", "save_acquire"}
DeadlockFree ==
    /\ \A t \in Threads : Waiting(t) ~> (pc[t] = "done")
    /\ [](\A t \in Threads :
            /\ (pc[t] = "save_acquire" /\ call[t].op = "flushall")
                  => lock = t /\ ENABLED save_acquire(t)
            /\ ~(Waiting(t) /\ lock_list = t)
            /\ ~(pc[t] = "acquire" /\ lock = t))
DeadlockFreeWitness ==
    \E t, u \in Threads :
        /\ t # u
        /\ pc[t] = "done" /\ call[t].op = "flushall" /\ ret[t] = OK
        /\ pc[u] = "acquire" /\ call[u].op = "set"
        /\ lock = Sweeper
====
